---- MODULE Spec2Model ----
(***************************************************************************)
(* Employee task tracker (backend/app.py): the Employee and Task tables,   *)
(* the signed session tokens, the require_auth gate and the handlers of    *)
(* /auth/login, /auth/me, /employees, /tasks, /tasks/<id>, /api/dashboard. *)
(*                                                                         *)
(* Encoding of Python / JSON values:                                       *)
(*   integer-typed fields (employee_id, ids): an integer, or None, or      *)
(*     EmptyStr (the JSON string ""), or NoKey (key absent from the JSON   *)
(*     object);                                                            *)
(*   string-typed fields (title, status, description, due_date text): a    *)
(*     string, or NoneS (null), or NoKeyS (key absent);                    *)
(*   dates: <<year, month, day>>, or NoDate for None.                      *)
(***************************************************************************)
EXTENDS Integers, Sequences, FiniteSets, TLC

VARIABLES
    employees,  \* the Employee table: id -> row
    tasks,      \* the Task table: id -> row
    now,        \* the server's clock, in seconds
    issued,     \* the tokens /auth/login has handed out
    writes,     \* requests that have changed the Task table
    ticks,      \* advances of the clock
    req,        \* the last request
    resp        \* its response: status code and JSON body

vars == <<employees, tasks, now, issued, writes, ticks, req, resp>>

-----------------------------------------------------------------------------
(* Values *)

None == -1
NoKey == -2
EmptyStr == -3

NoneS == "<None>"
NoKeyS == "<no key>"

NoDate == <<>>

\* Python truthiness of a value of an integer-typed field: None, 0 and ""
\* are falsy (NoKey never reaches a test: dict.get turns it into None).
Truthy(v) == v \notin {None, 0, EmptyStr}

\* Python truthiness of a string-or-None value.
TruthyS(s) == s \notin {NoneS, ""}

\* payload.get(key) on an integer-typed / string-typed field.
get(v) == IF v = NoKey THEN None ELSE v
getS(s) == IF s = NoKeyS THEN NoneS ELSE s

\* payload.get(key, default)
getDefaultS(s, default) == IF s = NoKeyS THEN default ELSE s

-----------------------------------------------------------------------------
(* Bounds *)

\* Requests are served until MaxWrites of them have changed the Task table.
MaxWrites == 2
\* Rows of the Task table.
MaxTasks == 4
\* Advances of the clock and tokens handed out, per behaviour (AuthSpec).
MaxTicks == 2
MaxTokens == 1
\* Rows of the Task table drawn for the dashboard (DashSpec).
MaxDashTasks == 4

-----------------------------------------------------------------------------
(* Configuration *)

SECRET_KEY == "dev-change-me"
TOKEN_TTL_SECONDS == 604800

-----------------------------------------------------------------------------
(* Credential store: werkzeug generate_password_hash / check_password_hash. *)
(* The hash is salted and one-way: it is modelled as the pair it is         *)
(* computed from, which only check_password_hash looks into.                *)

generate_password_hash(salt, password) == <<"pbkdf2", salt, password>>

check_password_hash(pwhash, password) ==
    pwhash = generate_password_hash(pwhash[2], password)

-----------------------------------------------------------------------------
(* Seed data *)

SeedEmployees ==
    <<[id |-> 1, name |-> "Avery Diaz", title |-> "Engineering Manager",
       email |-> "avery@example.com", role |-> "admin",
       password_hash |-> generate_password_hash("s1", "admin123")],
      [id |-> 2, name |-> "Morgan Lee", title |-> "Product Designer",
       email |-> "morgan@example.com", role |-> "employee",
       password_hash |-> generate_password_hash("s2", "design123")],
      [id |-> 3, name |-> "Riley Patel", title |-> "Backend Engineer",
       email |-> "riley@example.com", role |-> "employee",
       password_hash |-> generate_password_hash("s3", "build123")]>>

SeedTasks(t) ==
    <<[id |-> 1, title |-> "Implement authentication",
       description |-> "Add login flow and secure the API endpoints.",
       status |-> "in_progress", employee_id |-> SeedEmployees[1].id,
       due_date |-> NoDate, created_at |-> t],
      [id |-> 2, title |-> "Refresh dashboard visuals",
       description |-> "Update the UI to match the new design system.",
       status |-> "pending", employee_id |-> SeedEmployees[2].id,
       due_date |-> NoDate, created_at |-> t],
      [id |-> 3, title |-> "Optimize task queries",
       description |-> "Reduce dashboard latency by improving the task queries.",
       status |-> "completed", employee_id |-> SeedEmployees[3].id,
       due_date |-> NoDate, created_at |-> t]>>

-----------------------------------------------------------------------------
(* Models *)

\* Employee.query.get(id): the row exists.
EmployeeExists(id) == id \in DOMAIN employees

\* Task.query.get(task_id): the row exists.
TaskExists(task_id) == task_id \in DOMAIN tasks

\* Employee.to_dict
EmployeeToDict(e) ==
    [id |-> e.id, name |-> e.name, title |-> e.title, email |-> e.email,
     role |-> e.role]

NoEmployeeDict ==
    [id |-> None, name |-> NoneS, title |-> NoneS, email |-> NoneS,
     role |-> NoneS]

\* Task.to_dict; the employee relationship loads the row employee_id names,
\* and is None when there is none.
TaskToDict(t) ==
    [id |-> t.id, title |-> t.title, description |-> t.description,
     status |-> t.status,
     employee |-> IF EmployeeExists(t.employee_id)
                  THEN EmployeeToDict(employees[t.employee_id])
                  ELSE NoEmployeeDict,
     employee_id |-> t.employee_id, due_date |-> t.due_date,
     created_at |-> t.created_at]

-----------------------------------------------------------------------------
(* parse_date *)

LeapYear(y) == (y % 4 = 0 /\ y % 100 # 0) \/ y % 400 = 0

DaysInMonth(y, m) ==
    IF m = 2 THEN (IF LeapYear(y) THEN 29 ELSE 28)
    ELSE IF m \in {4, 6, 9, 11} THEN 30 ELSE 31

\* The fields datetime.fromisoformat reads off the text, <<>> when the text
\* has not the shape YYYY-MM-DD[Thh:mm:ss].
IsoFields(text) ==
    CASE text = "2024-02-29" -> <<2024, 2, 29, 0, 0, 0>>
      [] text = "2023-02-29" -> <<2023, 2, 29, 0, 0, 0>>
      [] text = "2024-03-01T09:30:00" -> <<2024, 3, 1, 9, 30, 0>>
      [] text = "2024-13-01" -> <<2024, 13, 1, 0, 0, 0>>
      [] OTHER -> <<>>

\* datetime.fromisoformat(value): ok = FALSE stands for ValueError.
fromisoformat(text) ==
    LET f == IsoFields(text) IN
    IF f = <<>> THEN [ok |-> FALSE, date |-> NoDate]
    ELSE IF f[2] \notin 1..12 \/ f[3] \notin 1..DaysInMonth(f[1], f[2])
              \/ f[4] \notin 0..23 \/ f[5] \notin 0..59 \/ f[6] \notin 0..59
         THEN [ok |-> FALSE, date |-> NoDate]
         ELSE [ok |-> TRUE, date |-> <<f[1], f[2], f[3]>>]

parse_date(value) ==
    IF ~TruthyS(value) THEN NoDate
    ELSE IF fromisoformat(value).ok THEN fromisoformat(value).date
         ELSE NoDate

-----------------------------------------------------------------------------
(* Session tokens: URLSafeTimedSerializer(SECRET_KEY, salt="employee-auth"). *)
(* The signature is an HMAC of the payload and the timestamp under the key:  *)
(* it is modelled as the tuple it is computed from, which is equal to        *)
(* another signature exactly when key, payload and timestamp are.            *)

Signature(key, payload, ts) == <<key, payload.id, payload.role, ts>>

dumps(payload, ts) ==
    [payload |-> payload, ts |-> ts, sig |-> Signature(SECRET_KEY, payload, ts)]

\* Fault: the age of the token is not checked.
loads_NoMaxAge(token, max_age) ==
    [ok |-> token.sig = Signature(SECRET_KEY, token.payload, token.ts),
     payload |-> token.payload]

\* serializer.loads(token, max_age): ok = FALSE stands for BadSignature
\* (SignatureExpired is a BadSignature).
loads(token, max_age) ==
    IF token.sig # Signature(SECRET_KEY, token.payload, token.ts)
    THEN [ok |-> FALSE, payload |-> token.payload]
    ELSE IF now - token.ts > max_age
         THEN [ok |-> FALSE, payload |-> token.payload]
         ELSE [ok |-> TRUE, payload |-> token.payload]

NoToken == [payload |-> [id |-> None, role |-> NoneS], ts |-> 0, sig |-> <<>>]

\* The Authorization header: the text before the token ("" with no token
\* when the header is missing) and the token.
NoHeader == [prefix |-> "", token |-> NoToken]
Bearer(token) == [prefix |-> "Bearer ", token |-> token]

\* get_current_user: the id of the Employee row, None when there is none.
get_current_user(h) ==
    IF h.prefix # "Bearer " THEN None
    ELSE LET r == loads(h.token, TOKEN_TTL_SECONDS) IN
         IF ~r.ok THEN None
         ELSE LET user_id == r.payload.id IN
              IF ~Truthy(user_id) THEN None
              ELSE IF EmployeeExists(user_id) THEN user_id ELSE None

-----------------------------------------------------------------------------
(* Responses: the status code, the JSON body, and the Task table after the  *)
(* request.                                                                 *)

Response(code, body, table) == [code |-> code, body |-> body, tasks |-> table]

Error(code, message) == Response(code, [error |-> message], tasks)

-----------------------------------------------------------------------------
(* POST /auth/login *)

\* text.lower().strip()
lower_strip(text) ==
    CASE text = " Morgan@Example.COM " -> "morgan@example.com"
      [] text = "AVERY@example.com" -> "avery@example.com"
      [] OTHER -> text

\* Employee.query.filter_by(email=email).first(): the id, None when no row.
EmployeeByEmail(email) ==
    IF \E i \in DOMAIN employees : employees[i].email = email
    THEN CHOOSE i \in DOMAIN employees : employees[i].email = email
    ELSE None

login(payload) ==
    LET email == lower_strip(IF TruthyS(getS(payload.email))
                             THEN payload.email ELSE "")
        password == IF TruthyS(getS(payload.password))
                    THEN payload.password ELSE ""
    IN
    IF email = "" \/ password = ""
    THEN Error(400, "Email and password are required.")
    ELSE
    LET employee == EmployeeByEmail(email) IN
    IF employee = None
    THEN Error(401, "Invalid credentials.")
    ELSE IF ~check_password_hash(employees[employee].password_hash, password)
    THEN Error(401, "Invalid credentials.")
    ELSE Response(200,
                  [token |-> dumps([id |-> employees[employee].id,
                                    role |-> employees[employee].role], now),
                   user |-> EmployeeToDict(employees[employee])],
                  tasks)

-----------------------------------------------------------------------------
(* GET /auth/me, GET /employees *)

current_user(user) == Response(200, EmployeeToDict(employees[user]), tasks)

\* Employee.query.order_by(Employee.name): the seeded names are in the order
\* of their ids (Avery, Morgan, Riley), and no request adds an employee.
get_employees(user) ==
    Response(200, [i \in DOMAIN employees |-> EmployeeToDict(employees[i])],
             tasks)

-----------------------------------------------------------------------------
(* GET /tasks *)

\* request.args.get("employee_id", type=int): None when absent or not an int.
ArgInt(v) == IF v \in {NoKey, EmptyStr} THEN None ELSE v

\* The rows in descending created_at order (rows of equal created_at in
\* table order).
RECURSIVE OrderByCreatedDesc(_)
OrderByCreatedDesc(ids) ==
    IF ids = {} THEN <<>>
    ELSE LET first == CHOOSE i \in ids :
                 \A j \in ids :
                     \/ tasks[i].created_at > tasks[j].created_at
                     \/ (tasks[i].created_at = tasks[j].created_at /\ i <= j)
         IN <<first>> \o OrderByCreatedDesc(ids \ {first})

\* Fault: the employee_id argument is honoured for every caller.
RoleFilter_ArgFirst(user, employee_id, q) ==
    IF Truthy(employee_id)
    THEN {i \in q : tasks[i].employee_id = employee_id}
    ELSE IF employees[user].role # "admin"
         THEN {i \in q : tasks[i].employee_id = employees[user].id}
         ELSE q

\* The narrowing by role of the rows q.
RoleFilter(user, employee_id, q) ==
    IF employees[user].role # "admin"
    THEN {i \in q : tasks[i].employee_id = employees[user].id}
    ELSE IF Truthy(employee_id)
         THEN {i \in q : tasks[i].employee_id = employee_id}
         ELSE q

get_tasks(user, status_arg, employee_id_arg) ==
    LET status == getS(status_arg)
        employee_id == ArgInt(employee_id_arg)
        q1 == {i \in DOMAIN tasks : TruthyS(status) => tasks[i].status = status}
        q2 == RoleFilter(user, employee_id, q1)
        order == OrderByCreatedDesc(q2)
    IN Response(200, [i \in DOMAIN order |-> TaskToDict(tasks[order[i]])], tasks)

-----------------------------------------------------------------------------
(* POST /tasks *)

\* Fault: the caller owns the task only when the body names nobody.
TaskOwner_WhenUnnamed(user, employee_id) ==
    IF employees[user].role # "admin" /\ ~Truthy(employee_id)
    THEN employees[user].id
    ELSE employee_id

\* The employee_id the new row gets.
TaskOwner(user, employee_id) ==
    IF employees[user].role # "admin" THEN employees[user].id ELSE employee_id

create_task(user, payload) ==
    LET title == getS(payload.title) IN
    IF ~TruthyS(title) THEN Error(400, "Title is required.")
    ELSE
    LET status == getDefaultS(payload.status, "pending")
        description == getS(payload.description)
        employee_id == get(payload.employee_id)
        due_date == parse_date(getS(payload.due_date))
    IN
    IF employees[user].role = "admin" /\ Truthy(employee_id)
       /\ ~EmployeeExists(employee_id)
    THEN Error(404, "Employee not found.")
    ELSE LET task == [id |-> Len(tasks) + 1, title |-> title,
                      description |-> description, status |-> status,
                      employee_id |-> TaskOwner(user, employee_id),
                      due_date |-> due_date, created_at |-> now]
         IN Response(201, TaskToDict(task), Append(tasks, task))

-----------------------------------------------------------------------------
(* PUT /tasks/<task_id> *)

\* Fault: a task nobody owns is open to every caller.
MayUpdate_Unassigned(user, task) ==
    \/ employees[user].role = "admin"
    \/ task.employee_id = employees[user].id
    \/ task.employee_id = None

\* The caller is an admin or the owner of the task.
MayUpdate(user, task) ==
    ~(employees[user].role # "admin" /\ task.employee_id # employees[user].id)

\* Fault: every caller who may update the task may hand it over.
SetEmployeeId_AnyCaller(user, task, employee_id) ==
    IF employee_id # None
    THEN [task EXCEPT !.employee_id = employee_id]
    ELSE task

\* task.employee_id = employee_id, for an admin who supplies one.
SetEmployeeId(user, task, employee_id) ==
    IF employees[user].role = "admin" /\ employee_id # None
    THEN [task EXCEPT !.employee_id = employee_id]
    ELSE task

\* Fault: the parsed date is stored whether or not the text parsed.
SetDueDate_Always(task, due_date) == [task EXCEPT !.due_date = due_date]

\* task.due_date = due_date, when the text parsed.
SetDueDate(task, due_date) ==
    IF due_date # NoDate THEN [task EXCEPT !.due_date = due_date] ELSE task

update_task(user, task_id, payload) ==
    IF ~TaskExists(task_id) THEN Error(404, "Task not found.")
    ELSE
    LET task == tasks[task_id] IN
    IF ~MayUpdate(user, task) THEN Error(403, "Forbidden")
    ELSE
    LET status == getS(payload.status)
        description == getS(payload.description)
        employee_id == get(payload.employee_id)
        due_date == parse_date(getS(payload.due_date))
    IN
    IF employees[user].role = "admin" /\ employee_id # None
       /\ Truthy(employee_id) /\ ~EmployeeExists(employee_id)
    THEN Error(404, "Employee not found.")
    ELSE
    LET t1 == SetEmployeeId(user, task, employee_id)
        t2 == IF TruthyS(status) THEN [t1 EXCEPT !.status = status] ELSE t1
        t3 == IF description # NoneS
              THEN [t2 EXCEPT !.description = description] ELSE t2
        t4 == SetDueDate(t3, due_date)
    IN Response(200, TaskToDict(t4), [tasks EXCEPT ![task_id] = t4])

-----------------------------------------------------------------------------
(* GET /api/dashboard *)

\* Fault: the rate is cut off after two decimals.
RoundPercent_Truncate(numerator, denominator) ==
    (numerator * 10000) \div denominator

\* round(numerator / denominator * 100, 2), in hundredths of a percent:
\* round() rounds a tie to the even neighbour.
RoundPercent(numerator, denominator) ==
    LET scaled == numerator * 10000
        q == scaled \div denominator
        r == scaled % denominator
    IN IF 2 * r < denominator THEN q
       ELSE IF 2 * r > denominator THEN q + 1
       ELSE IF q % 2 = 0 THEN q ELSE q + 1

\* completion_rate is in hundredths of a percent (3333 is 33.33).
get_dashboard_summary(user) ==
    LET total_tasks == Len(tasks)
        completed_tasks ==
            Cardinality({i \in DOMAIN tasks : tasks[i].status = "completed"})
        pending_tasks ==
            Cardinality({i \in DOMAIN tasks : tasks[i].status # "completed"})
        employee_count == Len(employees)
        completion_rate == IF total_tasks # 0
                           THEN RoundPercent(completed_tasks, total_tasks)
                           ELSE 0
    IN Response(200,
                [total_tasks |-> total_tasks,
                 completed_tasks |-> completed_tasks,
                 pending_tasks |-> pending_tasks,
                 completion_rate |-> completion_rate,
                 employee_count |-> employee_count],
                tasks)

-----------------------------------------------------------------------------
(* require_auth *)

\* fn(*args, **kwargs): the view function of the request's route, run with
\* g.current_user = user.
fn(request, user) ==
    CASE request.op = "current_user" -> current_user(user)
      [] request.op = "get_employees" -> get_employees(user)
      [] request.op = "get_tasks" ->
             get_tasks(user, request.status, request.employee_id)
      [] request.op = "create_task" -> create_task(user, request.payload)
      [] request.op = "update_task" ->
             update_task(user, request.task_id, request.payload)
      [] request.op = "get_dashboard_summary" -> get_dashboard_summary(user)

\* The wrapper of require_auth(role); role = "" is require_auth().
require_auth(role, request) ==
    LET user == get_current_user(request.client.header) IN
    IF user = None THEN Error(401, "Unauthorized")
    ELSE IF role # "" /\ employees[user].role # role THEN Error(403, "Forbidden")
    ELSE fn(request, user)

-----------------------------------------------------------------------------
(* Clients and their requests *)

\* What a login hands the client: the token, the employee it was issued
\* for and the time of issue.
NoGrant == [token |-> NoToken, employee_id |-> None, at |-> 0]

Client(kind, header, grant) == [kind |-> kind, header |-> header, grant |-> grant]

\* Logged-in clients of the task engine: each employee holds a token the
\* serializer signs now; one client sends no Authorization header.
Sessions ==
    {Client("missing", NoHeader, NoGrant)}
    \cup {Client("genuine",
                 Bearer(dumps([id |-> employees[i].id, role |-> employees[i].role],
                              now)),
                 [token |-> dumps([id |-> employees[i].id,
                                   role |-> employees[i].role], now),
                  employee_id |-> employees[i].id, at |-> now])
          : i \in DOMAIN employees}

\* Ids a client may name: 0, the seeded employees' ids and an id of no
\* employee.
IdInputs == 0..(Len(SeedEmployees) + 1)

EmployeeIdInputs == {NoKey, None, EmptyStr} \cup IdInputs

StatusArgs == {NoKeyS, "completed"}

EmployeeIdArgs == {NoKey} \cup IdInputs

\* POST bodies: employee_id is left out and the other fields vary, or
\* employee_id is supplied with none or all of the other fields.
CreatePayloads ==
    [title : {NoKeyS, "Write report"},
     description : {NoKeyS},
     status : {NoKeyS, "completed"},
     employee_id : {NoKey},
     due_date : {NoKeyS, "2024-03-01T09:30:00", "2024-13-01", "tomorrow"}]
    \cup
    [title : {"Write report"},
     description : {NoKeyS},
     status : {NoKeyS},
     employee_id : EmployeeIdInputs,
     due_date : {NoKeyS}]
    \cup
    [title : {"Write report"},
     description : {"Quarterly numbers"},
     status : {"completed"},
     employee_id : EmployeeIdInputs,
     due_date : {"2024-02-29"}]

\* PUT bodies, likewise.
UpdatePayloads ==
    [status : {NoKeyS, "", "completed"},
     description : {NoKeyS, ""},
     employee_id : {NoKey},
     due_date : {NoKeyS, NoneS, "", "2024-02-29", "2023-02-29"}]
    \cup
    [status : {NoKeyS},
     description : {NoKeyS},
     employee_id : EmployeeIdInputs,
     due_date : {NoKeyS}]
    \cup
    [status : {"completed"},
     description : {""},
     employee_id : EmployeeIdInputs,
     due_date : {"2024-02-29"}]

TaskIdInputs == 1..(Len(tasks) + 1)

NoRequest == [op |-> "none"]
NoResponse == [code |-> 0, body |-> [error |-> ""]]

\* No request is being served.
Idle == req = NoRequest

\* One request: the response is recorded and the table committed.
Handle(request, result) ==
    /\ writes < MaxWrites
    /\ Len(result.tasks) <= MaxTasks
    /\ tasks' = result.tasks
    /\ writes' = IF result.tasks # tasks THEN writes + 1 ELSE writes
    /\ req' = request
    /\ resp' = [code |-> result.code, body |-> result.body]
    /\ UNCHANGED <<employees, now, ticks>>

Login(payload) ==
    LET result == login(payload) IN
    /\ Handle([op |-> "login", payload |-> payload], result)
    /\ IF result.code = 200
       THEN /\ issued' = issued \cup {[token |-> result.body.token,
                                       employee_id |-> result.body.user.id,
                                       at |-> now]}
            /\ Cardinality(issued') <= MaxTokens
       ELSE issued' = issued

CurrentUser(c) ==
    LET request == [op |-> "current_user", client |-> c] IN
    /\ Handle(request, require_auth("", request))
    /\ UNCHANGED issued

GetEmployees(c) ==
    LET request == [op |-> "get_employees", client |-> c] IN
    /\ Handle(request, require_auth("admin", request))
    /\ UNCHANGED issued

GetTasks(c, status, employee_id) ==
    LET request == [op |-> "get_tasks", client |-> c, status |-> status,
                    employee_id |-> employee_id] IN
    /\ Handle(request, require_auth("", request))
    /\ UNCHANGED issued

CreateTask(c, payload) ==
    LET request == [op |-> "create_task", client |-> c, payload |-> payload] IN
    /\ Handle(request, require_auth("", request))
    /\ UNCHANGED issued

UpdateTask(c, task_id, payload) ==
    LET request == [op |-> "update_task", client |-> c, task_id |-> task_id,
                    payload |-> payload] IN
    /\ Handle(request, require_auth("", request))
    /\ UNCHANGED issued

GetDashboardSummary(c) ==
    LET request == [op |-> "get_dashboard_summary", client |-> c] IN
    /\ Handle(request, require_auth("admin", request))
    /\ UNCHANGED issued

\* The response has gone out and the request context is torn down.
Respond ==
    /\ ~Idle
    /\ req' = NoRequest
    /\ resp' = NoResponse
    /\ UNCHANGED <<employees, tasks, now, issued, writes, ticks>>

\* Time passes.
Tick(seconds) ==
    /\ ticks < MaxTicks
    /\ now' = now + seconds
    /\ ticks' = ticks + 1
    /\ UNCHANGED <<employees, tasks, issued, writes, req, resp>>

-----------------------------------------------------------------------------
(* The task engine, from the seeded store *)

Init ==
    /\ employees = SeedEmployees
    /\ tasks = SeedTasks(0)
    /\ now = 0
    /\ issued = {}
    /\ writes = 0
    /\ ticks = 0
    /\ req = NoRequest
    /\ resp = NoResponse

Next ==
    \/ Idle /\ \E c \in Sessions, s \in StatusArgs, e \in EmployeeIdArgs :
                   GetTasks(c, s, e)
    \/ Idle /\ \E c \in Sessions, p \in CreatePayloads : CreateTask(c, p)
    \/ Idle /\ \E c \in Sessions, t \in TaskIdInputs, p \in UpdatePayloads :
                   UpdateTask(c, t, p)
    \/ Idle /\ \E c \in Sessions : GetDashboardSummary(c)
    \/ Respond

Spec == Init /\ [][Next]_vars

-----------------------------------------------------------------------------
(* Authentication: logins, the clock, and what clients can put in the     *)
(* Authorization header.                                                   *)

LoginPayloads ==
    [email : {NoKeyS, "AVERY@example.com", " Morgan@Example.COM ",
              "riley@example.com", "nobody@example.com"},
     password : {NoKeyS, "admin123", "design123", "build123"}]

\* A token of the client's with one part of it rewritten, the signature
\* kept.
Tampered(token) ==
    {[token EXCEPT !.payload.id = i] :
         i \in (DOMAIN employees) \ {token.payload.id}}
    \cup {[token EXCEPT !.payload.role = r] : r \in {"admin"} \ {token.payload.role}}
    \cup {[token EXCEPT !.ts = t] : t \in {now} \ {token.ts}}

\* A token signed without the server's key.
Forged ==
    [payload |-> [id |-> SeedEmployees[1].id, role |-> "admin"], ts |-> now,
     sig |-> Signature("guess", [id |-> SeedEmployees[1].id, role |-> "admin"],
                       now)]

\* Tokens the serializer signed for an Employee table that ensure_schema has
\* since removed (SECRET_KEY outlives the database): one names an employee
\* the new table has not, one carries no id.
Stale ==
    {dumps([id |-> i, role |-> "admin"], now) : i \in {None, Len(employees) + 1}}

AuthClients ==
    {Client("missing", NoHeader, NoGrant), Client("forged", Bearer(Forged), NoGrant)}
    \cup {Client("stale", Bearer(t), NoGrant) : t \in Stale}
    \cup {Client("genuine", Bearer(g.token), g) : g \in issued}
    \cup {Client("malformed", [prefix |-> p, token |-> g.token], g) :
              p \in {"Basic ", "bearer "}, g \in issued}
    \cup UNION {{Client("tampered", Bearer(t), g) : t \in Tampered(g.token)} :
                    g \in issued}

AuthCreatePayload ==
    [title |-> "Write report", description |-> NoKeyS, status |-> NoKeyS,
     employee_id |-> NoKey, due_date |-> NoKeyS]

AuthUpdatePayload ==
    [status |-> "completed", description |-> NoKeyS, employee_id |-> NoKey,
     due_date |-> NoKeyS]

AuthNext ==
    \/ Idle /\ \E p \in LoginPayloads : Login(p)
    \/ Idle /\ \E d \in {1, TOKEN_TTL_SECONDS} : Tick(d)
    \/ Idle /\ \E c \in AuthClients : CurrentUser(c)
    \/ Idle /\ \E c \in AuthClients : GetEmployees(c)
    \/ Idle /\ \E c \in AuthClients : GetTasks(c, NoKeyS, NoKey)
    \/ Idle /\ \E c \in AuthClients : CreateTask(c, AuthCreatePayload)
    \/ Idle /\ \E c \in AuthClients, t \in DOMAIN tasks :
                   UpdateTask(c, t, AuthUpdatePayload)
    \/ Idle /\ \E c \in AuthClients : GetDashboardSummary(c)
    \/ Respond

AuthSpec == Init /\ [][AuthNext]_vars

-----------------------------------------------------------------------------
(* The dashboard over any Task table of up to MaxDashTasks rows *)

DashStatuses == {"pending", "in_progress", "completed"}

DashTask(i, status) ==
    [id |-> i, title |-> "Write report", description |-> NoneS,
     status |-> status, employee_id |-> None, due_date |-> NoDate,
     created_at |-> 0]

DashInit ==
    /\ employees = SeedEmployees
    /\ \E n \in 0..MaxDashTasks : \E st \in [1..n -> DashStatuses] :
           tasks = [i \in 1..n |-> DashTask(i, st[i])]
    /\ now = 0
    /\ issued = {}
    /\ writes = 0
    /\ ticks = 0
    /\ req = NoRequest
    /\ resp = NoResponse

DashNext ==
    \/ Idle /\ \E c \in Sessions : GetDashboardSummary(c)
    \/ Respond

DashSpec == DashInit /\ [][DashNext]_vars

-----------------------------------------------------------------------------
(* Properties *)

\* The employee the client of the last request logged in as.
Caller == req.client.grant.employee_id

AdminCaller == req.client.kind = "genuine" /\ employees[Caller].role = "admin"

NonAdminCaller == req.client.kind = "genuine" /\ employees[Caller].role # "admin"

\* The date Python reads in each text the clients send as due_date, NoDate
\* for the texts it reads none in.
ExpectedDate(text) ==
    CASE text = "2024-02-29" -> <<2024, 2, 29>>
      [] text = "2024-03-01T09:30:00" -> <<2024, 3, 1>>
      [] OTHER -> NoDate

Abs(x) == IF x < 0 THEN -x ELSE x

\* C1: whatever status and employee_id filters a non-admin caller sends, GET
\* /tasks answers 200 and every task in the answer has the caller's id as
\* employee_id.
C1_ListOnlyOwnTasks ==
    (req.op = "get_tasks" /\ NonAdminCaller) =>
        /\ resp.code = 200
        /\ \A i \in DOMAIN resp.body : resp.body[i].employee_id = Caller

\* A non-admin asks for the tasks of another employee, who has some, and
\* gets a non-empty list.
C1_Witness ==
    /\ req.op = "get_tasks"
    /\ NonAdminCaller
    /\ req.employee_id \in (DOMAIN employees) \ {Caller}
    /\ \E i \in DOMAIN tasks : tasks[i].employee_id = req.employee_id
    /\ Len(resp.body) >= 1

\* C2: PUT /tasks/<id> on an existing task by a caller who is neither admin
\* nor its owner (every non-admin, when the task is unassigned) answers 403
\* and leaves every row of the Task table as it was.
C2_NonOwnerUpdateForbidden ==
    [][(/\ req'.op = "update_task"
        /\ NonAdminCaller'
        /\ req'.task_id \in DOMAIN tasks
        /\ tasks[req'.task_id].employee_id # Caller')
       => (resp'.code = 403 /\ tasks' = tasks)]_vars

\* A non-admin was refused the update of an unassigned task, with a body
\* that carried every field.
C2_Witness ==
    /\ req.op = "update_task"
    /\ NonAdminCaller
    /\ req.task_id \in DOMAIN tasks
    /\ tasks[req.task_id].employee_id = None
    /\ req.payload.employee_id = Caller
    /\ req.payload.status = "completed"
    /\ resp.code = 403

\* C3: POST /tasks by a non-admin never answers 404, and when it answers 201
\* the task it returns and the row it stored have the caller's id as
\* employee_id, whatever employee_id the body carried.
C3_NonAdminCreateOwnsTask ==
    (req.op = "create_task" /\ NonAdminCaller) =>
        /\ resp.code # 404
        /\ TruthyS(getS(req.payload.title)) => resp.code = 201
        /\ resp.code = 201 =>
               /\ resp.body.employee_id = Caller
               /\ resp.body.id = Len(tasks)
               /\ tasks[resp.body.id].employee_id = Caller

\* A non-admin created a task naming an employee that does not exist.
C3_Witness ==
    /\ req.op = "create_task"
    /\ NonAdminCaller
    /\ req.payload.employee_id = Len(employees) + 1
    /\ resp.code = 201

\* C4: the employee_id of a task changes only in an update_task by an admin;
\* an update by the non-admin owner answers 200 whatever employee_id the body
\* carries, keeps the task's employee_id, and applies status (when truthy),
\* description (when not null) and due_date (when it parses).
C4_OnlyAdminReassigns ==
    [][/\ \A i \in DOMAIN tasks :
              tasks'[i].employee_id # tasks[i].employee_id =>
                  (req'.op = "update_task" /\ req'.task_id = i /\ AdminCaller')
       /\ (/\ req'.op = "update_task"
           /\ NonAdminCaller'
           /\ req'.task_id \in DOMAIN tasks
           /\ tasks[req'.task_id].employee_id = Caller')
          => LET old == tasks[req'.task_id]
                 new == tasks'[req'.task_id]
                 p == req'.payload
             IN /\ resp'.code = 200
                /\ new.employee_id = old.employee_id
                /\ new.status = IF p.status \in {NoKeyS, NoneS, ""}
                                THEN old.status ELSE p.status
                /\ new.description = IF p.description \in {NoKeyS, NoneS}
                                     THEN old.description ELSE p.description
                /\ new.due_date = IF ExpectedDate(p.due_date) = NoDate
                                  THEN old.due_date
                                  ELSE ExpectedDate(p.due_date)
                /\ new.title = old.title
                /\ new.created_at = old.created_at]_vars

\* The owner, not an admin, sent another employee's id with a new status:
\* the status is stored and the task is still the owner's.
C4_Witness ==
    /\ req.op = "update_task"
    /\ NonAdminCaller
    /\ req.task_id \in DOMAIN tasks
    /\ req.payload.employee_id \in (DOMAIN employees) \ {Caller}
    /\ req.payload.status = "completed"
    /\ resp.code = 200
    /\ tasks[req.task_id].employee_id = Caller
    /\ tasks[req.task_id].status = "completed"

\* C6: when an admin sends an employee_id that is the id of no employee,
\* POST /tasks (with a title) and PUT /tasks/<id> (on an existing task)
\* answer 404 and leave the Task table as it was.
C6_UnknownEmployeeNotFound ==
    [][(/\ req'.op \in {"create_task", "update_task"}
        /\ AdminCaller'
        /\ req'.op = "create_task" => TruthyS(getS(req'.payload.title))
        /\ req'.op = "update_task" => req'.task_id \in DOMAIN tasks
        /\ req'.payload.employee_id \in IdInputs \ DOMAIN employees)
       => (resp'.code = 404 /\ tasks' = tasks)]_vars

\* C7: when an admin updates an assigned task with employee_id null or
\* empty, the answer is 200 and the task's employee_id is None afterwards.
C7_NullUnassigns ==
    [][(/\ req'.op = "update_task"
        /\ AdminCaller'
        /\ req'.task_id \in DOMAIN tasks
        /\ tasks[req'.task_id].employee_id \in DOMAIN employees
        /\ req'.payload.employee_id \in {None, EmptyStr})
       => (resp'.code = 200 /\ tasks'[req'.task_id].employee_id = None)]_vars

\* C8: in an update by an admin or the owner, a due_date that is absent,
\* null, empty or no ISO date leaves the task's due_date as it was; when the
\* update answers 200 and the text is an ISO date, the due_date is that date.
C8_DueDateKeptUnlessParsed ==
    [][(/\ req'.op = "update_task"
        /\ req'.task_id \in DOMAIN tasks
        /\ \/ AdminCaller'
           \/ (NonAdminCaller' /\ tasks[req'.task_id].employee_id = Caller'))
       => LET old == tasks[req'.task_id]
              new == tasks'[req'.task_id]
              expected == ExpectedDate(req'.payload.due_date)
          IN /\ expected = NoDate => new.due_date = old.due_date
             /\ (expected # NoDate /\ resp'.code = 200) => new.due_date = expected
             /\ new.due_date # old.due_date => expected # NoDate]_vars

\* A task that has a due date was updated with a text that is no date (2023
\* has no 29 February), and has its due date still.
C8_Witness ==
    /\ req.op = "update_task"
    /\ req.task_id \in DOMAIN tasks
    /\ req.payload.due_date = "2023-02-29"
    /\ resp.code = 200
    /\ tasks[req.task_id].due_date = <<2024, 2, 29>>

\* C10: the employee_id of every stored task is None or the id of an
\* employee.
C10_OwnerExists ==
    \A i \in DOMAIN tasks :
        tasks[i].employee_id = None \/ tasks[i].employee_id \in DOMAIN employees

-----------------------------------------------------------------------------
(* Properties of the authentication (AuthSpec) *)

ProtectedOps ==
    {"current_user", "get_employees", "get_tasks", "create_task", "update_task",
     "get_dashboard_summary"}

\* The client sends, as a Bearer token, a token a login issued no longer ago
\* than the time-to-live.
HoldsLiveToken(c) ==
    c.kind = "genuine" /\ now - c.grant.at <= TOKEN_TTL_SECONDS

\* C5: a protected route answers 401 and changes neither table unless the
\* header is "Bearer " and a token that a login issued, unaltered, no older
\* than the time-to-live and naming an employee in the table; with such a
\* token the request runs as the employee the token was issued for.
C5_FailClosed ==
    [][req'.op \in ProtectedOps =>
           IF HoldsLiveToken(req'.client)
           THEN /\ resp'.code # 401
                /\ req'.op = "current_user" =>
                       (resp'.code = 200 /\ resp'.body.id = Caller')
                /\ req'.op = "get_employees" =>
                       resp'.code = IF employees[Caller'].role = "admin"
                                    THEN 200 ELSE 403
           ELSE /\ resp'.code = 401
                /\ tasks' = tasks
                /\ employees' = employees]_vars

\* A token issued by a login is refused once it is older than the
\* time-to-live, on a route that would have written.
C5_Witness ==
    /\ req.op = "create_task"
    /\ req.client.kind = "genuine"
    /\ now - req.client.grant.at > TOKEN_TTL_SECONDS
    /\ resp.code = 401

-----------------------------------------------------------------------------
(* Properties of the dashboard (DashSpec) *)

\* C9: completion_rate is 0 when there is no task, and otherwise the
\* hundredth of a percent nearest to completed / total * 100 (33.33 for 1
\* of 3), completed_tasks counting the tasks of status "completed" and
\* total_tasks all tasks.
C9_CompletionRate ==
    (req.op = "get_dashboard_summary" /\ resp.code = 200) =>
        LET total == Len(tasks)
            completed ==
                Cardinality({i \in DOMAIN tasks : tasks[i].status = "completed"})
            rate == resp.body.completion_rate
        IN /\ resp.body.total_tasks = total
           /\ resp.body.completed_tasks = completed
           /\ total = 0 => rate = 0
           /\ total # 0 => 2 * Abs(rate * total - completed * 10000) <= total
           /\ (total = 3 /\ completed = 1) => rate = 3333

\* The dashboard of an empty Task table.
C9_Witness ==
    /\ req.op = "get_dashboard_summary"
    /\ resp.code = 200
    /\ resp.body.total_tasks = 0
    /\ resp.body.completion_rate = 0

====
